---------------------------- MODULE Spec2Model ----------------------------
(***************************************************************************)
(* Model of main.py of CMD-Executor: the tool `execute`, the pipeline      *)
(* `execute_command`, and its two pure helpers `decode_with_fallback` and  *)
(* `process_output_for_message`.                                           *)
(*                                                                         *)
(* A Python str is a sequence of characters; a character is a one-element  *)
(* TLA+ string: an ASCII character stands for itself ("a", " ", "\n"), any *)
(* other code point is written "Uxxxx" ("UFFFD" is U+FFFD).  Python bytes  *)
(* are sequences of integers 0..255.                                       *)
(***************************************************************************)
EXTENDS Integers, Sequences, FiniteSets, TLC

VARIABLES
    \* ---- process_output_for_message, applied once and then to its own result
    text,            \* the argument of the first call
    processed,       \* the value the last call returned
    first,           \* the value the first call returned
    npc,             \* "start" | "once" | "twice" | "off"
    \* ---- decode_with_fallback, one loop iteration per step
    byte_content,    \* argument
    encodings,       \* argument
    i,               \* loop index (1-based; Python's i + 1)
    rejected,        \* candidates the loop has `continue`d past, in order
    decoded,         \* the returned string
    dpc,             \* "start" | "loop" | "done" | "raised" | "off"
    \* ---- the process: module state, and the requests made of `execute`
    SANDBOX_PATH,    \* os.getenv('SANDBOX_PATH') when the module was loaded
    dirs,            \* the directories that exist (os.path.isdir)
    DEFAULT_WORKDIR, \* the module global
    warned,          \* whether loading the module logged the warning of line 18
    req,             \* number of the current request, 0 before the first
    phase,           \* phase[r]: where request r is
    spawned,         \* spawned[r]: calls of subprocess.run made by request r
    command,         \* argument of execute
    cwd,             \* argument of execute (None, or a string)
    workdir,         \* argument of execute_command
    proc,            \* the CompletedProcess, once the child has exited
    stdout_bytes, stderr_bytes, returncode,
    stdout, stderr,  \* decoded and stripped
    stdout_order,    \* the encodings list given to decode stdout
    stderr_order,    \* the encodings list given to decode stderr
    result,          \* the dict execute_command returned
    returned,        \* the string execute returned
    raised           \* the exception that left execute, "none" when none did

nvars == <<text, processed, first, npc>>
dvars == <<byte_content, encodings, i, rejected, decoded, dpc>>
pvars == <<SANDBOX_PATH, dirs, DEFAULT_WORKDIR, warned>>
rvars == <<req, phase, spawned, command, cwd, workdir, proc, stdout_bytes,
           stderr_bytes, returncode, stdout, stderr, stdout_order,
           stderr_order, result, returned, raised>>
vars == <<nvars, dvars, pvars, rvars>>

-----------------------------------------------------------------------------
(* Bounds of the model *)

\* longest text given to process_output_for_message
MaxLen == 5

\* longest run of ASCII bytes put before the tail of a decode input
MaxPad == 9

\* longest tail of arbitrary bytes of a decode input
MaxTail == 3

\* requests made of the tool in one run of the process
MaxRequests == 2

-----------------------------------------------------------------------------
(* Python str primitives *)

\* str.isspace() / the regex class \s, on the characters the model uses
Whitespace == {" ", "\t", "\n", "\r", "\f", "U3000"}

IsSpace(c) == c \in Whitespace

Min(a, b) == IF a < b THEN a ELSE b

\* the one element of a one-element set; {F(x) : x \in {e}} is {F(e)} with e
\* evaluated once before F is applied, as Python evaluates an argument
\* before the call
The(S) == CHOOSE r \in S : TRUE

Drop(s, n) == SubSeq(s, n + 1, Len(s))

Take(s, n) == SubSeq(s, 1, Min(n, Len(s)))

StartsWith(s, p) == Len(s) >= Len(p) /\ SubSeq(s, 1, Len(p)) = p

RECURSIVE LStrip(_)
LStrip(s) ==
    IF s # <<>> /\ IsSpace(Head(s)) THEN LStrip(Tail(s)) ELSE s

RECURSIVE RStrip(_)
RStrip(s) ==
    IF s # <<>> /\ IsSpace(s[Len(s)]) THEN RStrip(SubSeq(s, 1, Len(s) - 1)) ELSE s

\* str.strip()
Strip(s) == The({RStrip(l) : l \in {LStrip(s)}})

\* text.replace('\r\n', ' ')
RECURSIVE ReplaceCRLF(_)
ReplaceCRLF(s) ==
    IF s = <<>> THEN <<>>
    ELSE IF Len(s) >= 2 /\ s[1] = "\r" /\ s[2] = "\n"
         THEN <<" ">> \o ReplaceCRLF(Drop(s, 2))
         ELSE <<s[1]>> \o ReplaceCRLF(Tail(s))

\* .replace('\n', ' ')
RECURSIVE ReplaceLF(_)
ReplaceLF(s) ==
    IF s = <<>> THEN <<>>
    ELSE <<IF s[1] = "\n" THEN " " ELSE s[1]>> \o ReplaceLF(Tail(s))

RECURSIVE DropBlanks(_)
DropBlanks(s) ==
    IF s # <<>> /\ Head(s) = " " THEN DropBlanks(Tail(s)) ELSE s

\* A variant of CollapseWhitespace with the pattern ' +': only blanks collapse.
RECURSIVE CollapseBlanksOnly(_)
CollapseBlanksOnly(s) ==
    IF s = <<>> THEN <<>>
    ELSE IF s[1] = " "
         THEN <<" ">> \o CollapseBlanksOnly(DropBlanks(s))
         ELSE <<s[1]>> \o CollapseBlanksOnly(Tail(s))

\* re.sub(r'\s+', ' ', s): every maximal run of whitespace becomes one blank
RECURSIVE CollapseWhitespace(_)
CollapseWhitespace(s) ==
    IF s = <<>> THEN <<>>
    ELSE IF IsSpace(s[1])
         THEN <<" ">> \o CollapseWhitespace(LStrip(s))
         ELSE <<s[1]>> \o CollapseWhitespace(Tail(s))

process_output_for_message(t) ==
    IF t = <<>> THEN <<>>
    ELSE The({Strip(collapsed) :
                 collapsed \in {CollapseWhitespace(lf) :
                    lf \in {ReplaceLF(crlf) : crlf \in {ReplaceCRLF(t)}}}})

-----------------------------------------------------------------------------
(* Codecs.  bytes.decode(encoding, errors) for the three encodings the     *)
(* program names, on the bytes of ByteAlphabet: 0x0A, 0x0D, 0x20, 0x61 are *)
(* ASCII; 0xC3 is a UTF-8 two-byte lead and 0xA9 a UTF-8 continuation, and *)
(* both are GBK lead bytes; 0xFF is invalid in UTF-8 and in GBK.           *)

ByteAlphabet == {10, 13, 32, 97, 169, 195, 255}

REPLACEMENT == "UFFFD"

CMD_ENCODING == <<"G", "B", "K">>

UTF_8 == <<"u", "t", "f", "-", "8">>

LATIN_1 == <<"l", "a", "t", "i", "n", "-", "1">>

\* codecs.lookup: the codec an encoding name selects, "unknown" for LookupError
Codec(name) ==
    CASE name = CMD_ENCODING -> "gbk"
      [] name = UTF_8 -> "utf-8"
      [] name = LATIN_1 -> "latin-1"
      [] OTHER -> "unknown"

AsciiChar(b) ==
    CASE b = 10 -> "\n"
      [] b = 13 -> "\r"
      [] b = 32 -> " "
      [] b = 97 -> "a"
      [] OTHER -> "?"

Latin1Char(b) ==
    CASE b = 169 -> "U00A9"
      [] b = 195 -> "U00C3"
      [] b = 255 -> "U00FF"
      [] OTHER -> AsciiChar(b)

\* UTF-8: C2..DF lead a two-byte sequence, 80..BF continue it
Utf8Lead2(b) == b >= 194 /\ b <= 223

Utf8Cont(b) == b >= 128 /\ b <= 191

Utf8Char2(b1, b2) ==
    CASE b1 = 195 /\ b2 = 169 -> "U00E9"
      [] OTHER -> "?"

\* GBK: 81..FE lead, 40..FE without 7F trail
GbkLead(b) == b >= 129 /\ b <= 254

GbkTrail(b) == b >= 64 /\ b <= 254 /\ b # 127

GbkChar2(b1, b2) ==
    CASE b1 = 195 /\ b2 = 97 -> "U80CA"
      [] b1 = 195 /\ b2 = 195 -> "U59B9"
      [] b1 = 195 /\ b2 = 169 -> "U8305"
      [] b1 = 169 /\ b2 = 97 -> "U309B"
      [] b1 = 169 /\ b2 = 195 -> "U251F"
      [] b1 = 169 /\ b2 = 169 -> "U2505"
      [] OTHER -> "?"

\* One decoding step at the head of a non-empty b: the bytes consumed, the
\* character produced, and whether the head is an invalid sequence (which
\* errors='strict' raises on and errors='replace' turns into U+FFFD, one byte
\* consumed).
DecodeStep(codec, b) ==
    LET bad == [n |-> 1, ch |-> REPLACEMENT, err |-> TRUE]
    IN CASE codec = "latin-1" -> [n |-> 1, ch |-> Latin1Char(b[1]), err |-> FALSE]
         [] b[1] < 128 -> [n |-> 1, ch |-> AsciiChar(b[1]), err |-> FALSE]
         [] codec = "utf-8" ->
                IF Utf8Lead2(b[1]) /\ Len(b) >= 2 /\ Utf8Cont(b[2])
                THEN [n |-> 2, ch |-> Utf8Char2(b[1], b[2]), err |-> FALSE]
                ELSE bad
         [] OTHER ->
                IF GbkLead(b[1]) /\ Len(b) >= 2 /\ GbkTrail(b[2])
                THEN [n |-> 2, ch |-> GbkChar2(b[1], b[2]), err |-> FALSE]
                ELSE bad

\* The decoder run from the start of b over at most n characters: the
\* characters, the number of bytes they took, and whether a byte sequence
\* was invalid.  The run is split in two halves, the second starting where
\* the first ended, which keeps the nesting of the evaluation logarithmic
\* in n.
RECURSIVE DecodeChars(_, _, _)
DecodeChars(codec, b, n) ==
    IF b = <<>> \/ n = 0 THEN [text |-> <<>>, n |-> 0, err |-> FALSE]
    ELSE IF n = 1
         THEN The({[text |-> <<s.ch>>, n |-> s.n, err |-> s.err] :
                      s \in {DecodeStep(codec, b)}})
         ELSE The({The({[text |-> l.text \o r.text, n |-> l.n + r.n,
                         err |-> l.err \/ r.err] :
                           r \in {DecodeChars(codec, rest, m) :
                                     rest \in {Drop(b, l.n)},
                                     m \in {n - (n \div 2)}}}) :
                      l \in {DecodeChars(codec, b, h) : h \in {n \div 2}}})

\* bytes.decode(encoding, errors='replace'); b holds at most Len(b)
\* characters
DecodeReplace(codec, b) ==
    The({DecodeChars(codec, x, Len(x)).text : x \in {b}})

\* whether bytes.decode(encoding, errors='strict') raises UnicodeDecodeError
StrictRaises(codec, b) ==
    The({DecodeChars(codec, x, Len(x)).err : x \in {b}})

\* str.count(c) for a one-character c
Count(s, c) == Cardinality({k \in 1..Len(s) : s[k] = c})

Contains(s, c) == \E k \in 1..Len(s) : s[k] = c

-----------------------------------------------------------------------------
(* decode_with_fallback *)

TEN == 10

SAMPLE_BYTES == 100

\* A variant of TooManyReplacements that also rejects at exactly one tenth.
TooManyReplacementsGeq(decoded_text) ==
    Count(decoded_text, REPLACEMENT) * TEN >= Len(decoded_text)

\* decoded_text.count('\ufffd') > len(decoded_text) / 10
TooManyReplacements(decoded_text) ==
    Count(decoded_text, REPLACEMENT) * TEN > Len(decoded_text)

\* Python's exception classes, each with its base classes
Bases(cls) ==
    CASE cls = "UnicodeDecodeError" -> {"UnicodeDecodeError", "ValueError", "Exception"}
      [] cls = "LookupError" -> {"LookupError", "Exception"}
      [] cls = "ValueError" -> {"ValueError", "Exception"}
      [] cls = "FileNotFoundError" -> {"FileNotFoundError", "OSError", "Exception"}
      [] cls = "PermissionError" -> {"PermissionError", "OSError", "Exception"}
      [] OTHER -> {cls, "Exception"}

\* the index of the first except clause that catches cls, 0 when none does
FirstHandler(clauses, cls) ==
    IF \E k \in 1..Len(clauses) : clauses[k] \in Bases(cls)
    THEN CHOOSE k \in 1..Len(clauses) :
            /\ clauses[k] \in Bases(cls)
            /\ \A j \in 1..(k - 1) : clauses[j] \notin Bases(cls)
    ELSE 0

\* A variant of DecodeHandlers without the catch-all clause.
DecodeHandlersNoCatchAll == <<"UnicodeDecodeError">>

\* the except clauses of the loop body, in order; each one `continue`s
DecodeHandlers == <<"UnicodeDecodeError", "Exception">>

\* One iteration of the loop for candidate k (Python's i = k - 1): the text it
\* returns, a `continue`, or the exception the try body raises.
Attempt(b, encs, k) ==
    LET errors == IF k = 1 THEN "strict" ELSE "replace"
        codec == Codec(encs[k])
        decoded_text == DecodeReplace(codec, b)
    IN IF codec = "unknown"
       THEN [kind |-> "raise", exc |-> "LookupError", text |-> <<>>]
       ELSE IF errors = "strict" /\ StrictRaises(codec, b)
       THEN [kind |-> "raise", exc |-> "UnicodeDecodeError", text |-> <<>>]
       ELSE IF /\ Contains(decoded_text, REPLACEMENT)
               /\ errors = "replace"
               /\ TooManyReplacements(decoded_text)
       THEN [kind |-> "continue", exc |-> "none", text |-> <<>>]
       ELSE [kind |-> "return", exc |-> "none", text |-> decoded_text]

\* whether iteration k ends in `continue` (by the statement or by a handler)
Continues(a) ==
    \/ a.kind = "continue"
    \/ a.kind = "raise" /\ FirstHandler(DecodeHandlers, a.exc) # 0

RECURSIVE Join(_, _)
Join(parts, sep) ==
    IF parts = <<>> THEN <<>>
    ELSE IF Len(parts) = 1 THEN parts[1]
    ELSE parts[1] \o sep \o Join(Tail(parts), sep)

HexDigit(n) ==
    <<"0", "1", "2", "3", "4", "5", "6", "7", "8", "9",
      "a", "b", "c", "d", "e", "f">>[n + 1]

\* repr() of one byte inside b'...'
ByteEscape(b) ==
    CASE b = 10 -> <<"\\", "n">>
      [] b = 13 -> <<"\\", "r">>
      [] b >= 32 /\ b < 127 -> <<AsciiChar(b)>>
      [] OTHER -> <<"\\", "x", HexDigit(b \div 16), HexDigit(b % 16)>>

\* the escapes of the bytes of b one after another (by halves)
RECURSIVE EscapeBytes(_)
EscapeBytes(b) ==
    IF b = <<>> THEN <<>>
    ELSE IF Len(b) = 1 THEN ByteEscape(b[1])
    ELSE The({EscapeBytes(l) \o EscapeBytes(r) :
                 l \in {Take(b, Len(b) \div 2)}, r \in {Drop(b, Len(b) \div 2)}})

\* repr(bytes) for bytes holding no quote character
BytesRepr(b) == <<"b", "'">> \o EscapeBytes(b) \o <<"'">>

DIAG_PRE == <<"U89E3", "U7801", "U5931", "U8D25", "UFF0C", "U5C1D", "U8BD5", "U4E86", " ">>

DIAG_MID == <<"U3002", "U539F", "U59CB", "U5B57", "U8282", "U524D", "1", "0", "0", ":", " ">>

DIAG_END == <<".", ".", ".">>

\* the string returned when the loop ends without a return
DecodeFailure(b, encs) ==
    DIAG_PRE \o Join(encs, <<",", " ">>) \o DIAG_MID
             \o BytesRepr(Take(b, SAMPLE_BYTES)) \o DIAG_END

\* The value of a call: exc is "none" and value the string returned, or exc
\* is the exception that leaves the function.
RECURSIVE DecodeFrom(_, _, _)
DecodeFrom(b, encs, k) ==
    IF k > Len(encs) THEN [exc |-> "none", value |-> DecodeFailure(b, encs)]
    ELSE LET a == Attempt(b, encs, k)
         IN IF a.kind = "return" THEN [exc |-> "none", value |-> a.text]
            ELSE IF Continues(a) THEN DecodeFrom(b, encs, k + 1)
            ELSE [exc |-> a.exc, value |-> <<>>]

decode_with_fallback(b, encs) ==
    IF b = <<>> THEN [exc |-> "none", value |-> <<>>] ELSE DecodeFrom(b, encs, 1)

-----------------------------------------------------------------------------
(* Python values used by execute and execute_command *)

\* Optional[str]
None == [some |-> FALSE, val |-> <<>>]

Some(s) == [some |-> TRUE, val |-> s]

\* x or y, for x an Optional[str] and y a str
Or(x, y) == IF x.some /\ x.val # <<>> THEN x.val ELSE y

UpperLetters ==
    <<"A", "B", "C", "D", "E", "F", "G", "H", "I", "J", "K", "L", "M",
      "N", "O", "P", "Q", "R", "S", "T", "U", "V", "W", "X", "Y", "Z">>

LowerLetters ==
    <<"a", "b", "c", "d", "e", "f", "g", "h", "i", "j", "k", "l", "m",
      "n", "o", "p", "q", "r", "s", "t", "u", "v", "w", "x", "y", "z">>

LowerChar(c) ==
    IF \E k \in 1..26 : UpperLetters[k] = c
    THEN LowerLetters[CHOOSE k \in 1..26 : UpperLetters[k] = c]
    ELSE c

\* str.lower()
Lower(s) == [k \in 1..Len(s) |-> LowerChar(s[k])]

Digit(n) == <<"0", "1", "2", "3", "4", "5", "6", "7", "8", "9">>[n + 1]

RECURSIVE NatStr(_)
NatStr(n) ==
    IF n < 10 THEN <<Digit(n)>> ELSE NatStr(n \div 10) \o <<Digit(n % 10)>>

\* str(int), as an f-string formats it
IntStr(n) == IF n < 0 THEN <<"-">> \o NatStr(0 - n) ELSE NatStr(n)

\* repr() of one character inside the quotes q
CharEscape(c, q) ==
    CASE c = "\\" -> <<"\\", "\\">>
      [] c = "\n" -> <<"\\", "n">>
      [] c = "\r" -> <<"\\", "r">>
      [] c = "\t" -> <<"\\", "t">>
      [] c = "\f" -> <<"\\", "x", "0", "c">>
      [] c = "U3000" -> <<"\\", "u", "3", "0", "0", "0">>
      [] c = q -> <<"\\", c>>
      [] OTHER -> <<c>>

\* the escapes of the characters of s one after another (by halves)
RECURSIVE EscapeStr(_, _)
EscapeStr(s, q) ==
    IF s = <<>> THEN <<>>
    ELSE IF Len(s) = 1 THEN CharEscape(s[1], q)
    ELSE The({EscapeStr(l, q) \o EscapeStr(r, q) :
                 l \in {Take(s, Len(s) \div 2)}, r \in {Drop(s, Len(s) \div 2)}})

\* repr(str): double quotes when the string holds ' and no ", else single
Repr(s) ==
    LET q == IF Contains(s, "'") /\ ~Contains(s, "\"") THEN "\"" ELSE "'"
    IN <<q>> \o EscapeStr(s, q) \o <<q>>

\* " ".join(filter(None, message_parts)).strip()
JoinParts(parts) ==
    The({Strip(joined) :
            joined \in {Join(kept, <<" ">>) :
               kept \in {SelectSeq(parts, LAMBDA x : x # <<>>)}}})

-----------------------------------------------------------------------------
(* String literals of execute_command and execute *)

FALLBACK_WORKDIR == <<"D", ":", "\\", "S", "a", "n", "d", "b", "o", "x">>

MSG_PREP_FAIL == <<"U547D", "U4EE4", "U51C6", "U5907", "U5931", "U8D25", ":", " ">>

ERR_WORKDIR_PRE == <<"U5DE5", "U4F5C", "U76EE", "U5F55", " ", "'">>

ERR_WORKDIR_POST == <<"'", " ", "U65E0", "U6548", "UFF01">>

LOG_PREP_FAIL == <<"U547D", "U4EE4", "U51C6", "U5907", "U5931", "U8D25", ".", ".", ".">>

STATUS_OK == <<"U547D", "U4EE4", "U6267", "U884C", "U6210", "U529F", ".", ".", ".">>

LOG_OK == <<"U547D", "U4EE4", "U6267", "U884C", "U6210", "U529F">>

STATUS_FAIL == <<"U547D", "U4EE4", "U6267", "U884C", "U5931", "U8D25", ".", ".", ".">>

LOG_FAIL_RC == <<" ", "U8FD4", "U56DE", "U7801", ":", " ">>

MSG_FAIL == <<"U547D", "U4EE4", "U6267", "U884C", "U5931", "U8D25", ":", " ">>

ERR_NO_CMD ==
    <<"U627E", "U4E0D", "U5230", " ", "'", "c", "m", "d", "'", " ", "U547D",
      "U4EE4", "UFF01", "U8BF7", "U68C0", "U67E5", "U7CFB", "U7EDF", " ", "P",
      "A", "T", "H", " ", "U73AF", "U5883", "U53D8", "U91CF", "U3002">>

LOG_INTERNAL ==
    <<"U547D", "U4EE4", "U6267", "U884C", "U5931", "U8D25", ".", ".", ".", " ",
      "U5185", "U90E8", "U9519", "U8BEF">>

MSG_OS == <<"O", "S", " ", "U9519", "U8BEF", " ", "-", " ">>

LOG_OS ==
    <<"U547D", "U4EE4", "U6267", "U884C", "U5931", "U8D25", ".", ".", ".", " ",
      "O", "S", " ", "U9519", "U8BEF">>

MSG_UNEXP == <<"U53D1", "U751F", "U610F", "U5916", "U9519", "U8BEF", " ", "-", " ">>

LOG_UNEXP ==
    <<"U547D", "U4EE4", "U6267", "U884C", "U5931", "U8D25", ".", ".", ".", " ",
      "U610F", "U5916", "U9519", "U8BEF">>

KEY_MESSAGE == <<"m", "e", "s", "s", "a", "g", "e", "=">>

KEY_LOG == <<",", " ", "l", "o", "g", "=">>

CURL_PREFIX == <<"c", "u", "r", "l", " ">>

WSL_CURL_PREFIX == <<"w", "s", "l", " ", "c", "u", "r", "l", " ">>

-----------------------------------------------------------------------------
(* Module load, and the steps of execute / execute_command *)

\* os.getenv('SANDBOX_PATH') or "D:\\Sandbox"
DefaultWorkdir(env) == Or(env, FALLBACK_WORKDIR)

\* A variant of TargetCwd that passes cwd on as given.
TargetCwdNoDefault(c, default) == c.val

\* target_cwd = cwd or DEFAULT_WORKDIR
TargetCwd(c, default) == Or(c, default)

\* A variant of IsDir that takes every path for a directory.
IsDirAlways(path, existing) == TRUE

\* os.path.isdir
IsDir(path, existing) == path \in existing

LOCALE_FIRST == <<CMD_ENCODING, UTF_8, LATIN_1>>

UTF8_FIRST == <<UTF_8, CMD_ENCODING, LATIN_1>>

\* A variant of StdoutEncodings that tests for 'curl ' only.
StdoutEncodingsCurlOnly(cmd) ==
    IF StartsWith(The({Lower(t) : t \in {Strip(cmd)}}), CURL_PREFIX)
    THEN UTF8_FIRST
    ELSE LOCALE_FIRST

\* the list the test on command_lower selects for stdout
StdoutEncodings(cmd) ==
    LET command_lower == The({Lower(t) : t \in {Strip(cmd)}})
    IN IF \/ StartsWith(command_lower, CURL_PREFIX)
          \/ StartsWith(command_lower, WSL_CURL_PREFIX)
       THEN UTF8_FIRST
       ELSE LOCALE_FIRST

\* the list given for stderr
StderrEncodings(cmd) == LOCALE_FIRST

\* the dict returned when the directory check fails
PreflightResult(wd) ==
    [message |-> MSG_PREP_FAIL \o ERR_WORKDIR_PRE \o wd \o ERR_WORKDIR_POST,
     log |-> LOG_PREP_FAIL]

\* A variant of ResultFor whose failure message shows stdout.
ResultForStdoutOnFailure(rc, processed_stdout_for_msg, processed_stderr_for_msg) ==
    IF rc = 0
    THEN [message |-> JoinParts(<<STATUS_OK, processed_stdout_for_msg>>),
          log |-> LOG_OK]
    ELSE [message |-> JoinParts(<<STATUS_FAIL, processed_stdout_for_msg>>),
          log |-> STATUS_FAIL \o LOG_FAIL_RC \o IntStr(rc)]

\* A variant of ResultFor that appends the output without a separator.
ResultForNoSeparator(rc, processed_stdout_for_msg, processed_stderr_for_msg) ==
    IF rc = 0
    THEN [message |-> STATUS_OK \o processed_stdout_for_msg,
          log |-> LOG_OK]
    ELSE [message |-> STATUS_FAIL \o processed_stderr_for_msg,
          log |-> STATUS_FAIL \o LOG_FAIL_RC \o IntStr(rc)]

\* the dict assembled from the return code and the two processed streams
\* (message_parts, final_message and log_content of either branch)
ResultFor(rc, processed_stdout_for_msg, processed_stderr_for_msg) ==
    IF rc = 0
    THEN [message |-> JoinParts(<<STATUS_OK, processed_stdout_for_msg>>),
          log |-> LOG_OK]
    ELSE [message |-> JoinParts(<<STATUS_FAIL, processed_stderr_for_msg>>),
          log |-> STATUS_FAIL \o LOG_FAIL_RC \o IntStr(rc)]

\* A variant of ExecuteHandlers without the catch-all clause.
ExecuteHandlersNoCatchAll == <<"FileNotFoundError", "OSError">>

\* the except clauses of execute_command, in order
ExecuteHandlers == <<"FileNotFoundError", "OSError", "Exception">>

\* the except clause that catches an exception of class cls, "none" when
\* none does
CaughtBy(cls) ==
    LET k == FirstHandler(ExecuteHandlers, cls)
    IN IF k = 0 THEN "none" ELSE ExecuteHandlers[k]

\* What an exception raised in the try body leads to: the dict the matching
\* clause builds, or the exception leaving execute_command.
Handle(e) ==
    LET clause == CaughtBy(e.cls)
    IN CASE clause = "FileNotFoundError" ->
               [exc |-> "none", message |-> MSG_FAIL \o ERR_NO_CMD, log |-> LOG_INTERNAL]
         [] clause = "OSError" ->
               [exc |-> "none", message |-> MSG_FAIL \o MSG_OS \o e.text, log |-> LOG_OS]
         [] clause = "Exception" ->
               [exc |-> "none", message |-> MSG_FAIL \o MSG_UNEXP \o e.text, log |-> LOG_UNEXP]
         [] OTHER ->
               [exc |-> e.cls, message |-> <<>>, log |-> <<>>]

\* f"message={repr(msg)}, log={repr(log_val)}"
Formatted(r) == KEY_MESSAGE \o Repr(r.message) \o KEY_LOG \o Repr(r.log)

\* A variant of PhaseAfter that checks the directory and spawns again after
\* an OSError.
PhaseAfterRetry(ph, event) ==
    CASE ph = "Idle" /\ event = "call" -> "ValidatingDirectory"
      [] ph = "ValidatingDirectory" /\ event = "invalid" -> "PreflightFailed"
      [] ph = "ValidatingDirectory" /\ event = "valid" -> "Spawning"
      [] ph = "Spawning" /\ event = "started" -> "Running"
      [] ph = "Spawning" /\ event = "FileNotFoundError" -> "PreflightFailed"
      [] ph = "Spawning" /\ event = "OSError" -> "ValidatingDirectory"
      [] ph = "Running" /\ event = "exited" -> "Collecting"
      [] ph = "Collecting" /\ event = "collected" -> "Decoding"
      [] ph = "Decoding" /\ event = "decoded" -> "Formatting"
      [] OTHER -> "Done"

\* The phase a request is in after a step, the event being what the step
\* found or the except clause that caught what it raised.  A spawn that
\* raises FileNotFoundError or OSError ends the request before a child
\* exists; any other exception ends it through the catch-all clause.
PhaseAfter(ph, event) ==
    CASE ph = "Idle" /\ event = "call" -> "ValidatingDirectory"
      [] ph = "ValidatingDirectory" /\ event = "invalid" -> "PreflightFailed"
      [] ph = "ValidatingDirectory" /\ event = "valid" -> "Spawning"
      [] ph = "Spawning" /\ event = "started" -> "Running"
      [] ph = "Spawning" /\ event \in {"FileNotFoundError", "OSError"} -> "PreflightFailed"
      [] ph = "Running" /\ event = "exited" -> "Collecting"
      [] ph = "Collecting" /\ event = "collected" -> "Decoding"
      [] ph = "Decoding" /\ event = "decoded" -> "Formatting"
      [] OTHER -> "Done"

-----------------------------------------------------------------------------
(* Specification Spec: the process after the module is loaded, serving up  *)
(* to MaxRequests calls of execute one after another.                      *)

DIR_W == <<"C", ":", "\\", "w">>

DIR_QUOTES == <<"a", "'", "\"", "b">>

Commands ==
    { <<"d", "i", "r">>,
      <<"c", "u", "r", "l", " ", "x">>,
      <<" ", "C", "u", "r", "l", " ", "x">>,
      <<"w", "s", "l", " ", "c", "u", "r", "l", " ", "x">>,
      <<"c", "u", "r", "l">>,
      <<"c", "u", "r", "l", "x">> }

CwdArguments == {None, Some(<<>>), Some(DIR_W), Some(DIR_QUOTES)}

Environments == {None, Some(<<>>), Some(DIR_W)}

Filesystems == {{}, {DIR_W}, {FALLBACK_WORKDIR}}

\* what a child writes to stdout: nothing, "a\r\n", only a line break, and
\* the UTF-8 bytes of U+00E9 (a different character under GBK)
StdoutSamples == {<<>>, <<97, 13, 10>>, <<13, 10>>, <<195, 169>>}

\* what a child writes to stderr: nothing, "a\na", and a byte invalid in
\* GBK and in UTF-8
StderrSamples == {<<>>, <<97, 10, 97>>, <<255>>}

ReturnCodes == {0, 3}

SpawnErrors ==
    { [cls |-> "FileNotFoundError", text |-> <<"E", "2">>],
      [cls |-> "PermissionError", text |-> <<"E", "5">>],
      [cls |-> "ValueError", text |-> <<"n", "u", "l">>] }

NoProc == [exited |-> FALSE, stdout |-> <<>>, stderr |-> <<>>, returncode |-> 0]

NoResult == [message |-> <<>>, log |-> <<>>]

Requests == 1..MaxRequests

Terminal == {"Done", "PreflightFailed"}

NOff ==
    /\ text = <<>>
    /\ processed = <<>>
    /\ first = <<>>
    /\ npc = "off"

DOff ==
    /\ byte_content = <<>>
    /\ encodings = <<>>
    /\ i = 0
    /\ rejected = <<>>
    /\ decoded = <<>>
    /\ dpc = "off"

RequestReset ==
    /\ command = <<>>
    /\ cwd = None
    /\ workdir = <<>>
    /\ proc = NoProc
    /\ stdout_bytes = <<>>
    /\ stderr_bytes = <<>>
    /\ returncode = 0
    /\ stdout = <<>>
    /\ stderr = <<>>
    /\ stdout_order = <<>>
    /\ stderr_order = <<>>
    /\ result = NoResult
    /\ returned = <<>>
    /\ raised = "none"

ROff ==
    /\ SANDBOX_PATH = None
    /\ dirs = {}
    /\ DEFAULT_WORKDIR = <<>>
    /\ warned = FALSE
    /\ req = 0
    /\ phase = [r \in Requests |-> "Idle"]
    /\ spawned = [r \in Requests |-> 0]
    /\ RequestReset

\* the module has been loaded: lines 16-18
Init ==
    /\ SANDBOX_PATH \in Environments
    /\ dirs \in Filesystems
    /\ DEFAULT_WORKDIR = DefaultWorkdir(SANDBOX_PATH)
    /\ warned = ~IsDir(DEFAULT_WORKDIR, dirs)
    /\ req = 0
    /\ phase = [r \in Requests |-> "Idle"]
    /\ spawned = [r \in Requests |-> 0]
    /\ RequestReset
    /\ NOff
    /\ DOff

\* execute(command, cwd) is called and enters execute_command
Execute(c, d) ==
    /\ req < MaxRequests
    /\ req > 0 => phase[req] \in Terminal
    /\ req' = req + 1
    /\ phase' = [phase EXCEPT ![req + 1] = PhaseAfter("Idle", "call")]
    /\ command' = c
    /\ cwd' = d
    /\ workdir' = TargetCwd(d, DEFAULT_WORKDIR)
    /\ proc' = NoProc
    /\ stdout_bytes' = <<>>
    /\ stderr_bytes' = <<>>
    /\ returncode' = 0
    /\ stdout' = <<>>
    /\ stderr' = <<>>
    /\ stdout_order' = <<>>
    /\ stderr_order' = <<>>
    /\ result' = NoResult
    /\ returned' = <<>>
    /\ raised' = "none"
    /\ UNCHANGED <<spawned, pvars, nvars, dvars>>

\* execute_command returns r, and execute returns its rendering
Returns(r) ==
    /\ result' = r
    /\ returned' = Formatted(r)
    /\ raised' = "none"

\* an exception of class cls leaves execute_command and then execute
Propagates(cls) ==
    /\ result' = NoResult
    /\ returned' = <<>>
    /\ raised' = cls

\* the try body raised e
Raises(e) ==
    \E h \in {Handle(e)} :
       IF h.exc = "none"
       THEN Returns([message |-> h.message, log |-> h.log])
       ELSE Propagates(h.exc)

\* if not os.path.isdir(workdir): ... return
DirectoryInvalid ==
    /\ req > 0
    /\ phase[req] = "ValidatingDirectory"
    /\ ~IsDir(workdir, dirs)
    /\ phase' = [phase EXCEPT ![req] = PhaseAfter(@, "invalid")]
    /\ \E r \in {PreflightResult(workdir)} : Returns(r)
    /\ UNCHANGED <<req, spawned, command, cwd, workdir, proc, stdout_bytes,
                   stderr_bytes, returncode, stdout, stderr, stdout_order,
                   stderr_order, pvars, nvars, dvars>>

\* the directory exists: subprocess.run is called
DirectoryValid ==
    /\ req > 0
    /\ phase[req] = "ValidatingDirectory"
    /\ IsDir(workdir, dirs)
    /\ phase' = [phase EXCEPT ![req] = PhaseAfter(@, "valid")]
    /\ spawned' = [spawned EXCEPT ![req] = @ + 1]
    /\ UNCHANGED <<req, command, cwd, workdir, proc, stdout_bytes,
                   stderr_bytes, returncode, stdout, stderr, stdout_order,
                   stderr_order, result, returned, raised, pvars, nvars, dvars>>

\* the child process is created
SpawnStarted ==
    /\ req > 0
    /\ phase[req] = "Spawning"
    /\ phase' = [phase EXCEPT ![req] = PhaseAfter(@, "started")]
    /\ UNCHANGED <<req, spawned, command, cwd, workdir, proc, stdout_bytes,
                   stderr_bytes, returncode, stdout, stderr, stdout_order,
                   stderr_order, result, returned, raised, pvars, nvars, dvars>>

\* subprocess.run raises e instead
SpawnRaises(e) ==
    /\ req > 0
    /\ phase[req] = "Spawning"
    /\ phase' = [phase EXCEPT ![req] = PhaseAfter(@, CaughtBy(e.cls))]
    /\ Raises(e)
    /\ UNCHANGED <<req, spawned, command, cwd, workdir, proc, stdout_bytes,
                   stderr_bytes, returncode, stdout, stderr, stdout_order,
                   stderr_order, pvars, nvars, dvars>>

\* the child writes out and err and exits with code rc
ChildExits(out, err, rc) ==
    /\ req > 0
    /\ phase[req] = "Running"
    /\ phase' = [phase EXCEPT ![req] = PhaseAfter(@, "exited")]
    /\ proc' = [exited |-> TRUE, stdout |-> out, stderr |-> err, returncode |-> rc]
    /\ UNCHANGED <<req, spawned, command, cwd, workdir, stdout_bytes,
                   stderr_bytes, returncode, stdout, stderr, stdout_order,
                   stderr_order, result, returned, raised, pvars, nvars, dvars>>

\* lines 76-78
Collect ==
    /\ req > 0
    /\ phase[req] = "Collecting"
    /\ phase' = [phase EXCEPT ![req] = PhaseAfter(@, "collected")]
    /\ stdout_bytes' = proc.stdout
    /\ stderr_bytes' = proc.stderr
    /\ returncode' = proc.returncode
    /\ UNCHANGED <<req, spawned, command, cwd, workdir, proc, stdout, stderr,
                   stdout_order, stderr_order, result, returned, raised,
                   pvars, nvars, dvars>>

\* lines 80-86
Decode ==
    /\ req > 0
    /\ phase[req] = "Decoding"
    /\ \E stderr_encodings \in {StderrEncodings(command)},
          stdout_encodings \in {StdoutEncodings(command)} :
        \E e \in {decode_with_fallback(stderr_bytes, stderr_encodings)},
           o \in {decode_with_fallback(stdout_bytes, stdout_encodings)} :
          /\ stderr_order' = stderr_encodings
          /\ stdout_order' = stdout_encodings
          /\ IF e.exc = "none" /\ o.exc = "none"
             THEN /\ stderr' = Strip(e.value)
                  /\ stdout' = Strip(o.value)
                  /\ phase' = [phase EXCEPT ![req] = PhaseAfter(@, "decoded")]
                  /\ UNCHANGED <<result, returned, raised>>
             ELSE \E failed \in {IF e.exc # "none" THEN e.exc ELSE o.exc} :
                  /\ UNCHANGED <<stderr, stdout>>
                  /\ phase' = [phase EXCEPT ![req] = PhaseAfter(@, CaughtBy(failed))]
                  /\ Raises([cls |-> failed, text |-> <<>>])
    /\ UNCHANGED <<req, spawned, command, cwd, workdir, proc, stdout_bytes,
                   stderr_bytes, returncode, pvars, nvars, dvars>>

\* lines 89-122, and execute's lines 153-158
Format ==
    /\ req > 0
    /\ phase[req] = "Formatting"
    /\ phase' = [phase EXCEPT ![req] = PhaseAfter(@, "formatted")]
    /\ \E processed_stdout_for_msg \in {process_output_for_message(stdout)},
          processed_stderr_for_msg \in {process_output_for_message(stderr)} :
          \E r \in {ResultFor(returncode, processed_stdout_for_msg,
                              processed_stderr_for_msg)} :
             Returns(r)
    /\ UNCHANGED <<req, spawned, command, cwd, workdir, proc, stdout_bytes,
                   stderr_bytes, returncode, stdout, stderr, stdout_order,
                   stderr_order, pvars, nvars, dvars>>

\* the steps of the program itself
Step ==
    \/ \E c \in Commands, d \in CwdArguments : Execute(c, d)
    \/ DirectoryInvalid
    \/ DirectoryValid
    \/ SpawnStarted
    \/ \E e \in SpawnErrors : SpawnRaises(e)
    \/ Collect
    \/ Decode
    \/ Format

\* the step of the child process
ChildStep ==
    \E out \in StdoutSamples, err \in StderrSamples, rc \in ReturnCodes :
        ChildExits(out, err, rc)

Next == Step \/ ChildStep

Spec == Init /\ [][Next]_vars

\* The program's own steps are taken when they can be (execute_command is
\* straight-line blocking code), and the child, once running, exits.
FairSpec == Spec /\ WF_vars(Step) /\ WF_vars(ChildStep)

-----------------------------------------------------------------------------
(* Specification SpecNorm: process_output_for_message on every text of at  *)
(* most MaxLen characters, then on its own result.                         *)

NormAlphabet == {"a", " ", "\n", "\r", "\t", "U3000"}

RECURSIVE SeqsUpTo(_, _)
SeqsUpTo(S, n) ==
    IF n = 0 THEN {<<>>}
    ELSE LET shorter == SeqsUpTo(S, n - 1)
         IN shorter \cup {Append(s, c) : s \in shorter, c \in S}

NInit ==
    /\ text \in SeqsUpTo(NormAlphabet, MaxLen)
    /\ processed = <<>>
    /\ first = <<>>
    /\ npc = "start"
    /\ DOff
    /\ ROff

NormalizeCall ==
    /\ npc = "start"
    /\ processed' = process_output_for_message(text)
    /\ first' = processed'
    /\ npc' = "once"
    /\ UNCHANGED <<text, dvars, pvars, rvars>>

\* the function applied to what it returned
NormalizeAgain ==
    /\ npc = "once"
    /\ processed' = process_output_for_message(first)
    /\ npc' = "twice"
    /\ UNCHANGED <<text, first, dvars, pvars, rvars>>

NNext == NormalizeCall \/ NormalizeAgain

SpecNorm == NInit /\ [][NNext]_vars

-----------------------------------------------------------------------------
(* Specification SpecDecode: decode_with_fallback, one loop iteration per  *)
(* step, on inputs made of a run of 'a' bytes followed by a tail of        *)
(* arbitrary bytes, under the two candidate lists of execute_command and   *)
(* other lists.                                                            *)

TailAlphabet == {97, 169, 195, 255}

BOGUS == <<"x">>

EncodingLists ==
    { <<CMD_ENCODING, UTF_8, LATIN_1>>,
      <<UTF_8, CMD_ENCODING, LATIN_1>>,
      <<>>,
      <<UTF_8>>,
      <<CMD_ENCODING>>,
      <<CMD_ENCODING, UTF_8>>,
      <<UTF_8, CMD_ENCODING>>,
      <<BOGUS, UTF_8>>,
      <<UTF_8, BOGUS>> }

Pad(n) == [k \in 1..n |-> 97]

PadLens == (0..MaxPad) \cup {SAMPLE_BYTES - 1, SAMPLE_BYTES}

DecodeInputs ==
    {Pad(n) \o t : n \in PadLens, t \in SeqsUpTo(TailAlphabet, MaxTail)}

DInit ==
    /\ byte_content \in DecodeInputs
    /\ encodings \in EncodingLists
    /\ i = 0
    /\ rejected = <<>>
    /\ decoded = <<>>
    /\ dpc = "start"
    /\ NOff
    /\ ROff

\* if not byte_content: return ""
DecodeEmpty ==
    /\ dpc = "start"
    /\ byte_content = <<>>
    /\ decoded' = <<>>
    /\ dpc' = "done"
    /\ UNCHANGED <<byte_content, encodings, i, rejected, nvars, pvars, rvars>>

DecodeEnter ==
    /\ dpc = "start"
    /\ byte_content # <<>>
    /\ i' = 1
    /\ dpc' = "loop"
    /\ UNCHANGED <<byte_content, encodings, rejected, decoded, nvars, pvars, rvars>>

\* return decoded_text
DecodeAccept ==
    /\ dpc = "loop"
    /\ i <= Len(encodings)
    /\ Attempt(byte_content, encodings, i).kind = "return"
    /\ decoded' = Attempt(byte_content, encodings, i).text
    /\ dpc' = "done"
    /\ UNCHANGED <<byte_content, encodings, i, rejected, nvars, pvars, rvars>>

\* continue, from the ratio test or from an except clause; an exception no
\* clause catches leaves the function
DecodeContinue ==
    /\ dpc = "loop"
    /\ i <= Len(encodings)
    /\ Attempt(byte_content, encodings, i).kind # "return"
    /\ IF Continues(Attempt(byte_content, encodings, i))
       THEN /\ rejected' = Append(rejected, i)
            /\ i' = i + 1
            /\ dpc' = "loop"
       ELSE /\ dpc' = "raised"
            /\ UNCHANGED <<i, rejected>>
    /\ UNCHANGED <<byte_content, encodings, decoded, nvars, pvars, rvars>>

\* the loop is over: return the diagnostic
DecodeExhausted ==
    /\ dpc = "loop"
    /\ i > Len(encodings)
    /\ decoded' = DecodeFailure(byte_content, encodings)
    /\ dpc' = "done"
    /\ UNCHANGED <<byte_content, encodings, i, rejected, nvars, pvars, rvars>>

DNext ==
    \/ DecodeEmpty
    \/ DecodeEnter
    \/ DecodeAccept
    \/ DecodeContinue
    \/ DecodeExhausted

SpecDecode == DInit /\ [][DNext]_vars

-----------------------------------------------------------------------------
(* Properties of process_output_for_message *)

IsString(s) == \A k \in 1..Len(s) : s[k] \in STRING

IsSubstring(p, s) ==
    \E k \in 0..(Len(s) - Len(p)) : SubSeq(s, k + 1, k + Len(p)) = p

NoDoubleWhitespace(s) ==
    \A k \in 1..(Len(s) - 1) : ~(IsSpace(s[k]) /\ IsSpace(s[k + 1]))

NoLineBreak(s) == \A k \in 1..Len(s) : s[k] \notin {"\n", "\r"}

NoEdgeWhitespace(s) ==
    s # <<>> => ~IsSpace(s[1]) /\ ~IsSpace(s[Len(s)])

\* C5: process_output_for_message is idempotent (applied to its own result it
\* returns that result), and its result holds no two consecutive whitespace
\* characters, no CR and no LF, and no whitespace at either end.
C5_NormalizeIdempotentAndClean ==
    /\ npc \in {"once", "twice"} =>
          /\ NoDoubleWhitespace(processed)
          /\ NoLineBreak(processed)
          /\ NoEdgeWhitespace(processed)
    /\ npc = "twice" => processed = first

\* a text with a leading lone CR and a CR LF between two letters has been
\* normalized, and the result normalized again
C5_Witness ==
    /\ npc = "twice"
    /\ text = <<"\r", "a", "\r", "\n", "a">>
    /\ first = <<"a", " ", "a">>
    /\ processed = first

-----------------------------------------------------------------------------
(* Properties of decode_with_fallback *)

AllRejected ==
    /\ dpc = "done"
    /\ byte_content # <<>>
    /\ Len(rejected) = Len(encodings)

AcceptedAt(k) ==
    /\ dpc = "done"
    /\ byte_content # <<>>
    /\ i = k
    /\ k <= Len(encodings)

\* C6: decode_with_fallback is total: no call ends with an exception leaving
\* the function, the loop tries each candidate at most once and then returns,
\* what it returns is a string, the empty string for
\* empty input, and when every candidate was rejected a string that names
\* every candidate and shows the first SAMPLE_BYTES bytes and no more.
C6_DecodeTotal ==
    /\ dpc # "raised"
    /\ dpc = "loop" => i <= Len(encodings) + 1 /\ Len(rejected) = i - 1
    /\ dpc = "done" => IsString(decoded)
    /\ dpc = "done" /\ byte_content = <<>> => decoded = <<>>
    /\ AllRejected =>
          /\ \A k \in 1..Len(encodings) : IsSubstring(encodings[k], decoded)
          /\ IsSubstring(EscapeBytes(Take(byte_content, SAMPLE_BYTES)), decoded)
          /\ Len(byte_content) > SAMPLE_BYTES =>
                ~IsSubstring(EscapeBytes(Take(byte_content, SAMPLE_BYTES + 1)), decoded)

\* both candidates of a two-element list were rejected (the first by strict
\* decoding, the second by the codec lookup) for an input longer than the
\* sample
C6_Witness ==
    /\ AllRejected
    /\ encodings = <<UTF_8, BOGUS>>
    /\ Len(byte_content) > SAMPLE_BYTES

LossyText(k) == DecodeReplace(Codec(encodings[k]), byte_content)

Markers(k) == Count(LossyText(k), REPLACEMENT)

\* C8 as stated: the first candidate is strict, a later candidate is accepted
\* only with a share of replacement markers below one tenth, and one with a
\* share of one tenth or more is rejected.
C8_AsStated ==
    /\ AcceptedAt(1) => ~StrictRaises(Codec(encodings[1]), byte_content)
    /\ \A k \in 2..Len(encodings) :
          AcceptedAt(k) => Markers(k) * TEN < Len(LossyText(k))
    /\ \A k \in 2..Len(encodings) :
          (dpc = "done" /\ Markers(k) * TEN >= Len(LossyText(k)) /\ i >= k)
             => i > k

\* C8 amended: the first candidate is strict (accepted exactly when strict
\* decoding does not raise); a later candidate with a known codec is accepted
\* exactly when its share of replacement markers is at most one tenth, and
\* rejected, the next being tried, when the share is above one tenth.
C8_StrictThenAtMostTenth ==
    /\ AcceptedAt(1) =>
          /\ ~StrictRaises(Codec(encodings[1]), byte_content)
          /\ decoded = LossyText(1)
    /\ \A k \in 2..Len(encodings) :
          AcceptedAt(k) =>
             /\ Markers(k) * TEN <= Len(LossyText(k))
             /\ decoded = LossyText(k)
    /\ \A n \in 1..Len(rejected) :
          LET k == rejected[n]
          IN Codec(encodings[k]) # "unknown" =>
                IF k = 1 THEN StrictRaises(Codec(encodings[1]), byte_content)
                ELSE Markers(k) * TEN > Len(LossyText(k))

\* a second candidate was accepted with exactly one marker in ten characters
C8_Witness ==
    /\ AcceptedAt(2)
    /\ Len(decoded) = TEN
    /\ Count(decoded, REPLACEMENT) = 1

-----------------------------------------------------------------------------
(* Properties of execute and execute_command *)

Current(ph) == req > 0 /\ phase[req] \in ph

Finished == Current(Terminal)

\* the child of the current request exited with a code in codes, and the
\* request has returned
ExitedWith(codes) ==
    /\ Current({"Done"})
    /\ proc.exited
    /\ proc.returncode \in codes

\* the result says the command succeeded
Success(r) == r.log = LOG_OK

Unescape(c) ==
    CASE c = "n" -> "\n"
      [] c = "r" -> "\r"
      [] c = "t" -> "\t"
      [] OTHER -> c

NoParse == [ok |-> FALSE, val |-> <<>>, next |-> 0]

\* reads the rest of a quoted literal of s from position pos, up to the
\* closing quote q
RECURSIVE ReadBody(_, _, _)
ReadBody(s, pos, q) ==
    IF pos > Len(s) THEN NoParse
    ELSE IF s[pos] = q THEN [ok |-> TRUE, val |-> <<>>, next |-> pos + 1]
    ELSE IF s[pos] = "\\"
         THEN IF pos + 1 > Len(s) THEN NoParse
              ELSE LET r == ReadBody(s, pos + 2, q)
                   IN [ok |-> r.ok, val |-> <<Unescape(s[pos + 1])>> \o r.val,
                       next |-> r.next]
         ELSE LET r == ReadBody(s, pos + 1, q)
              IN [ok |-> r.ok, val |-> <<s[pos]>> \o r.val, next |-> r.next]

\* reads a quoted string literal of s that starts at position pos
ReadQuoted(s, pos) ==
    IF pos > Len(s) \/ s[pos] \notin {"'", "\""} THEN NoParse
    ELSE ReadBody(s, pos + 1, s[pos])

\* reads message=<literal>, log=<literal> and nothing else
ParseFormatted(s) ==
    LET fail == [ok |-> FALSE, message |-> <<>>, log |-> <<>>]
        m == ReadQuoted(s, Len(KEY_MESSAGE) + 1)
        l == ReadQuoted(s, m.next + Len(KEY_LOG))
    IN IF ~StartsWith(s, KEY_MESSAGE) \/ ~m.ok THEN fail
       ELSE IF ~StartsWith(Drop(s, m.next - 1), KEY_LOG) \/ ~l.ok THEN fail
       ELSE IF l.next # Len(s) + 1 THEN fail
       ELSE [ok |-> TRUE, message |-> m.val, log |-> l.val]

\* C1: whatever the command, the directory and the outcome of the spawn, no
\* exception leaves execute_command or execute, the record returned has the
\* two fields message and log, both strings, and the string execute returns
\* reads back as message=<quoted message>, log=<quoted log>.
C1_NeverRaisesAlwaysRecord ==
    /\ raised = "none"
    /\ Finished =>
          /\ DOMAIN result = {"message", "log"}
          /\ IsString(result.message) /\ result.message # <<>>
          /\ IsString(result.log) /\ result.log # <<>>
          /\ ParseFormatted(returned) =
                [ok |-> TRUE, message |-> result.message, log |-> result.log]

\* the spawn raised an exception that only the catch-all clause catches, and
\* the request returned its record
C1_Witness ==
    /\ Current({"Done"})
    /\ spawned[req] = 1
    /\ ~proc.exited
    /\ result.log = LOG_UNEXP
    /\ returned # <<>>

MentionsExitCode(r, n) ==
    IsSubstring(IntStr(n), r.log) \/ IsSubstring(IntStr(n), r.message)

DirectoryChecked == Current({"PreflightFailed", "Spawning", "Running",
                             "Collecting", "Decoding", "Formatting", "Done"})

\* C2 as stated: when the working directory is not an existing directory the
\* request returns a failure result with exit code -1 and never spawns.
C2_AsStated ==
    (DirectoryChecked /\ workdir \notin dirs) =>
       /\ phase[req] = "PreflightFailed"
       /\ spawned[req] = 0
       /\ ~Success(result)
       /\ MentionsExitCode(result, 0 - 1)

\* C2 amended: when the working directory is not an existing directory the
\* request ends in PreflightFailed without reaching the spawn, and returns a
\* failure record of two fields and no exit code: the message is the
\* preparation-failure text naming the directory, the log the fixed
\* preparation-failure text.
C2_PreflightNeverSpawns ==
    (DirectoryChecked /\ workdir \notin dirs) =>
       /\ phase[req] = "PreflightFailed"
       /\ spawned[req] = 0
       /\ ~proc.exited
       /\ ~Success(result)
       /\ DOMAIN result = {"message", "log"}
       /\ result.message =
             MSG_PREP_FAIL \o ERR_WORKDIR_PRE \o workdir \o ERR_WORKDIR_POST
       /\ result.log = LOG_PREP_FAIL

\* a request whose cwd names no directory has returned
C2_Witness ==
    /\ Current({"PreflightFailed"})
    /\ cwd = Some(DIR_QUOTES)
    /\ workdir \notin dirs
    /\ returned # <<>>

\* C3: when the child exits with code 0 the result says success and the
\* message begins with STATUS_OK: it is STATUS_OK alone when the decoded,
\* trimmed stdout is empty, else STATUS_OK, one blank and the normalized stdout.
C3_SuccessMessage ==
    ExitedWith({0}) =>
       /\ Success(result)
       /\ StartsWith(result.message, STATUS_OK)
       /\ stdout = Strip(decode_with_fallback(proc.stdout, stdout_order).value)
       /\ IF stdout = <<>>
          THEN result.message = STATUS_OK
          ELSE result.message =
                  STATUS_OK \o <<" ">> \o process_output_for_message(stdout)

\* a child that wrote "a\r\n" exited with code 0
C3_Witness ==
    /\ ExitedWith({0})
    /\ proc.stdout = <<97, 13, 10>>
    /\ result.message = STATUS_OK \o <<" ", "a">>

\* C4: when the child exits with a nonzero code the result says failure, the
\* message is STATUS_FAIL followed (when stderr is not empty) by a blank and
\* the normalized stderr, the log is STATUS_FAIL and the exit code, and so
\* neither holds anything of stdout.
C4_FailureMessage ==
    ExitedWith(ReturnCodes \ {0}) =>
       /\ ~Success(result)
       /\ StartsWith(result.message, STATUS_FAIL)
       /\ stderr = Strip(decode_with_fallback(proc.stderr, LOCALE_FIRST).value)
       /\ IF stderr = <<>>
          THEN result.message = STATUS_FAIL
          ELSE result.message =
                  STATUS_FAIL \o <<" ">> \o process_output_for_message(stderr)
       /\ result.log = STATUS_FAIL \o LOG_FAIL_RC \o IntStr(proc.returncode)

\* a child that wrote to stdout and to stderr exited with code 3
C4_Witness ==
    /\ ExitedWith({3})
    /\ proc.stdout = <<97, 13, 10>>
    /\ proc.stderr = <<97, 10, 97>>
    /\ result.message = STATUS_FAIL \o <<" ", "a", " ", "a">>

CwdGiven == cwd.some /\ cwd.val # <<>>

\* C7: with cwd omitted or empty the directory given to execute_command is
\* DEFAULT_WORKDIR, which is the environment variable's value when that is
\* set and not empty and the fallback path otherwise; with a non-empty cwd it
\* is cwd unchanged; and no request spawns in a directory that does not
\* exist, whether or not the warning was logged at load time.
C7_WorkdirResolution ==
    /\ DEFAULT_WORKDIR = IF SANDBOX_PATH.some /\ SANDBOX_PATH.val # <<>>
                         THEN SANDBOX_PATH.val
                         ELSE FALLBACK_WORKDIR
    /\ warned = (DEFAULT_WORKDIR \notin dirs)
    /\ req > 0 =>
          /\ workdir = IF CwdGiven THEN cwd.val ELSE DEFAULT_WORKDIR
          /\ spawned[req] > 0 => workdir \in dirs
          /\ (warned /\ ~CwdGiven) => spawned[req] = 0

\* the default came from the environment, was missing at load time, and a
\* request without cwd failed its own directory check
C7_Witness ==
    /\ Current({"PreflightFailed"})
    /\ SANDBOX_PATH = Some(DIR_W)
    /\ warned
    /\ cwd = None
    /\ workdir = DIR_W

CURL == <<"c", "u", "r", "l">>

\* the command text begins with the word curl
BeginsWithCurl(cmd) ==
    /\ StartsWith(cmd, CURL)
    /\ Len(cmd) > Len(CURL) => cmd[Len(CURL) + 1] = " "

OrdersChosen == Current({"Formatting", "Done"}) /\ proc.exited

\* C9 as stated: stdout is decoded utf-8 first exactly when the command text
\* begins with curl, locale first otherwise; stderr locale first always.
C9_AsStated ==
    OrdersChosen =>
       /\ stdout_order = IF BeginsWithCurl(command) THEN UTF8_FIRST ELSE LOCALE_FIRST
       /\ stderr_order = LOCALE_FIRST

\* C9 amended: stdout is decoded utf-8 first exactly when the command, with
\* surrounding whitespace removed and in lower case, begins with "curl " or
\* with "wsl curl " (the blank included), locale first otherwise; stderr is
\* decoded locale first for every command.
C9_EncodingOrder ==
    OrdersChosen =>
       /\ stdout_order =
             IF \/ StartsWith(Lower(Strip(command)), CURL_PREFIX)
                \/ StartsWith(Lower(Strip(command)), WSL_CURL_PREFIX)
             THEN <<UTF_8, CMD_ENCODING, LATIN_1>>
             ELSE <<CMD_ENCODING, UTF_8, LATIN_1>>
       /\ stderr_order = <<CMD_ENCODING, UTF_8, LATIN_1>>
       /\ stdout = Strip(decode_with_fallback(stdout_bytes, stdout_order).value)
       /\ stderr = Strip(decode_with_fallback(stderr_bytes, stderr_order).value)

\* "wsl curl x" wrote the UTF-8 bytes of U+00E9, which were decoded as UTF-8
C9_Witness ==
    /\ OrdersChosen
    /\ command = <<"w", "s", "l", " ", "c", "u", "r", "l", " ", "x">>
    /\ stdout_bytes = <<195, 169>>
    /\ stdout = <<"U00E9">>

Chain ==
    <<"Idle", "ValidatingDirectory", "Spawning", "Running", "Collecting",
      "Decoding", "Formatting", "Done">>

\* the moves of the state machine: one step along the chain, the directory
\* check or the spawn failing, and an error ending the request
AllowedMoves ==
    {<<Chain[k], Chain[k + 1]>> : k \in 1..(Len(Chain) - 1)}
        \cup {<<"ValidatingDirectory", "PreflightFailed">>,
              <<"Spawning", "PreflightFailed">>,
              <<"Spawning", "Done">>}

C10_State ==
    /\ \A r \in Requests : spawned[r] <= 1
    /\ \A r \in Requests :
          phase[r] \in {"Idle", "ValidatingDirectory"} => spawned[r] = 0
    /\ Current({"Decoding", "Formatting"}) =>
          /\ proc.exited
          /\ stdout_bytes = proc.stdout
          /\ stderr_bytes = proc.stderr
          /\ returncode = proc.returncode

C10_Move ==
    \A r \in Requests :
       phase'[r] # phase[r] =>
          /\ <<phase[r], phase'[r]>> \in AllowedMoves
          /\ phase[r] \notin Terminal

\* C10: every request moves through the phases in the order of the state
\* machine and never leaves Done or PreflightFailed; it calls subprocess.run
\* at most once; decoding starts only with the child exited and its bytes
\* collected; and, the child exiting, every request that has started reaches
\* Done or PreflightFailed.  (No move enters Idle, so a request that is
\* again and again either not started or finished is, once started,
\* finished.)
C10_StateMachine ==
    /\ []C10_State
    /\ [][C10_Move]_vars
    /\ \A r \in Requests : []<>(phase[r] \in {"Idle"} \cup Terminal)

\* a first request ran a child to the end, and a second one has failed its
\* directory check
C10_Witness ==
    /\ req = 2
    /\ phase[1] = "Done"
    /\ spawned[1] = 1
    /\ phase[2] = "PreflightFailed"
    /\ spawned[2] = 0

=============================================================================
